---- MODULE Spec2Model ----
\* react-native-data-detector: the JS facade (detect, downloadModel) over the
\* native module, and the demo screen (App) that drives it.
\*
\* A text is a sequence of one-character strings, so that offsets, substrings
\* and String.prototype.trim are computed and not assumed.  An entity is a
\* record [type, text, start, end] (the optional `data` mapping is carried by
\* no operation of the facade and is left out).
EXTENDS Integers, Sequences, FiniteSets, TLC

VARIABLES platform, modelDownloaded, calls,
          text, selectedTypes, results, loading, modelStatus,
          detectCalls, downloadCalls

facadeVars == <<platform, modelDownloaded, calls>>
appVars == <<text, selectedTypes, results, loading, modelStatus, detectCalls, downloadCalls>>
vars == <<platform, modelDownloaded, calls, text, selectedTypes, results, loading, modelStatus, detectCalls, downloadCalls>>

\* ---------------------------------------------------------------- bounds
\* Number of promise slots: facade calls that can be in flight (or settled and
\* not yet dropped by their caller) at the same time.
MaxCalls == 2

CallIds == 1..MaxCalls

\* ---------------------------------------------------------------- data
\* The default filter of detect, and the demo's ALL_TYPES (same order).
ALL_TYPES == <<"phoneNumber", "link", "email", "address", "date">>

Range(s) == {s[i] : i \in DOMAIN s}

\* `options` of detect: undefined, {} or {types: [...]}.
Omitted == [present |-> FALSE, hasTypes |-> FALSE, types |-> <<>>]
EmptyOptions == [present |-> TRUE, hasTypes |-> FALSE, types |-> <<>>]
WithTypes(ts) == [present |-> TRUE, hasTypes |-> TRUE, types |-> ts]

\* options?.types ?? [...five types]: only undefined is replaced, [] is kept.
ResolveTypesShortDefault(options) ==
    IF options.present /\ options.hasTypes THEN options.types
    ELSE <<"phoneNumber", "link", "email", "address">>
ResolveTypesOrDefault(options) ==
    IF options.present /\ options.hasTypes /\ options.types # <<>>
    THEN options.types ELSE ALL_TYPES
ResolveTypes(options) ==
    IF options.present /\ options.hasTypes THEN options.types ELSE ALL_TYPES

\* String.prototype.trim on a sequence of characters.
IsSpace(ch) == ch \in {" ", "\n"}
RECURSIVE TrimStart(_)
TrimStart(s) == IF s # <<>> /\ IsSpace(Head(s)) THEN TrimStart(Tail(s)) ELSE s
RECURSIVE TrimEnd(_)
TrimEnd(s) ==
    IF s # <<>> /\ IsSpace(s[Len(s)]) THEN TrimEnd(SubSeq(s, 1, Len(s) - 1)) ELSE s
Trim(s) == TrimEnd(TrimStart(s))

\* The arguments detect hands to NativeModule.detect.
DetectRequestTrimmed(t, options) == [text |-> Trim(t), types |-> ResolveTypes(options)]
DetectRequest(t, options) == [text |-> t, types |-> ResolveTypes(options)]

\* ---------------------------------------------------------------- native layer
\* The native module is not part of the TypeScript sources.  It is modelled
\* from its contract: a detector that recognises one-character tokens, reports
\* character offsets, honours the filter, and can fail on a platform error.
CharType(ch) ==
    CASE ch = "p" -> "phoneNumber"
      [] ch = "l" -> "link"
      [] ch = "e" -> "email"
      [] ch = "a" -> "address"
      [] ch = "d" -> "date"
      [] OTHER -> "none"

RECURSIVE ScanFrom(_, _, _)
ScanFrom(t, types, i) ==
    IF i > Len(t) THEN <<>>
    ELSE IF CharType(t[i]) \in Range(types)
         THEN <<[type |-> CharType(t[i]), text |-> <<t[i]>>, start |-> i - 1, end |-> i]>>
              \o ScanFrom(t, types, i + 1)
         ELSE ScanFrom(t, types, i + 1)
NativeDetect(t, types) == ScanFrom(t, types, 1)

ErrMsgs == {"E_DETECT", "E_UNAVAILABLE"}
DownloadErrMsgs == {"E_DOWNLOAD"}

\* What a settled promise carries: a list (detect), a flag (downloadModel) or
\* an error message.
Fulfilled(list) == [kind |-> "ok", list |-> list, flag |-> FALSE, msg |-> ""]
FulfilledFlag(b) == [kind |-> "ok", list |-> <<>>, flag |-> b, msg |-> ""]
Rejected(m) == [kind |-> "error", list |-> <<>>, flag |-> FALSE, msg |-> m]
NoOutcome == [kind |-> "none", list |-> <<>>, flag |-> FALSE, msg |-> ""]

NativeDetectOutcomes(t, types) ==
    {Fulfilled(NativeDetect(t, types))}
    \cup (IF t # <<>> /\ types # <<>> THEN {Rejected(m) : m \in ErrMsgs} ELSE {})

NativeDownloadOutcomes(os, downloaded) ==
    IF os = "ios" THEN {FulfilledFlag(FALSE)}
    ELSE IF downloaded THEN {FulfilledFlag(FALSE)}
    ELSE {FulfilledFlag(TRUE)} \cup {Rejected(m) : m \in DownloadErrMsgs}

\* ---------------------------------------------------------------- inputs
\* The demo's initial text, shortened to a phone token, a blank and an email
\* token; the other texts are the empty one and one with leading whitespace.
SAMPLE_TEXT == <<"p", " ", "e">>
Texts == {<<>>, <<" ", "p">>, SAMPLE_TEXT}
\* What the demo's text box is set to.
AppTexts == {<<" ">>, SAMPLE_TEXT}
OptionValues ==
    {Omitted, EmptyOptions, WithTypes(<<>>), WithTypes(<<"link", "phoneNumber">>),
     WithTypes(ALL_TYPES)}

\* ---------------------------------------------------------------- facade
\* One promise slot: the call as the caller made it (op, text, options), what
\* the native module was invoked with (ntext, ntypes, ncalls), what the native
\* promise settled with (nout), and what the caller's promise settled with
\* (fulfilled with value/flag, or rejected with reason).
FreeCall ==
    [st |-> "free", op |-> "none", text |-> <<>>, options |-> Omitted,
     ntext |-> <<>>, ntypes |-> <<>>, ncalls |-> 0, nout |-> NoOutcome,
     fulfilled |-> FALSE, rejected |-> FALSE, value |-> <<>>, flag |-> FALSE,
     reason |-> ""]

\* export async function detect(text, options)
Detect(c, t, options) ==
    /\ calls[c].st = "free"
    /\ calls' = [calls EXCEPT ![c] =
                    [FreeCall EXCEPT !.st = "pending", !.op = "detect",
                                     !.text = t, !.options = options,
                                     !.ntext = DetectRequest(t, options).text,
                                     !.ntypes = DetectRequest(t, options).types,
                                     !.ncalls = 1]]

\* export async function downloadModel()
DownloadModel(c) ==
    /\ calls[c].st = "free"
    /\ calls' = [calls EXCEPT ![c] =
                    [FreeCall EXCEPT !.st = "pending", !.op = "downloadModel",
                                     !.ncalls = 1]]

Reverse(s) == [i \in 1..Len(s) |-> s[Len(s) + 1 - i]]

\* `return NativeModule.f(...)` in an async function: the caller's promise
\* adopts the native promise's outcome.
AdoptFlagTrue(call, out) ==
    [call EXCEPT !.st = "done", !.nout = out,
                 !.fulfilled = (out.kind = "ok"),
                 !.rejected = (out.kind = "error"),
                 !.value = out.list, !.flag = (out.kind = "ok"), !.reason = out.msg]
AdoptSwallow(call, out) ==
    [call EXCEPT !.st = "done", !.nout = out,
                 !.fulfilled = TRUE, !.rejected = FALSE,
                 !.value = out.list, !.flag = out.flag, !.reason = out.msg]
AdoptReversed(call, out) ==
    [call EXCEPT !.st = "done", !.nout = out,
                 !.fulfilled = (out.kind = "ok"),
                 !.rejected = (out.kind = "error"),
                 !.value = Reverse(out.list), !.flag = out.flag, !.reason = out.msg]
AdoptRejectEmpty(call, out) ==
    [call EXCEPT !.st = "done", !.nout = out,
                 !.fulfilled = (out.kind = "ok" /\ (call.op = "detect" => out.list # <<>>)),
                 !.rejected = ~(out.kind = "ok" /\ (call.op = "detect" => out.list # <<>>)),
                 !.value = out.list, !.flag = out.flag,
                 !.reason = IF out.kind = "error" THEN out.msg ELSE "E_NO_ENTITIES"]
Adopt(call, out) ==
    [call EXCEPT !.st = "done", !.nout = out,
                 !.fulfilled = (out.kind = "ok"),
                 !.rejected = (out.kind = "error"),
                 !.value = out.list, !.flag = out.flag, !.reason = out.msg]

\* The native promise of call c settles with `out`.
SettleShared(c, out) ==
    calls' = [d \in CallIds |->
                IF calls[d].st = "pending" /\ calls[d].op = calls[c].op
                THEN Adopt(calls[d], out) ELSE calls[d]]
Settle(c, out) ==
    calls' = [calls EXCEPT ![c] = Adopt(calls[c], out)]

DetectSettles(c) ==
    /\ calls[c].st = "pending" /\ calls[c].op = "detect"
    /\ \E out \in NativeDetectOutcomes(calls[c].ntext, calls[c].ntypes) : Settle(c, out)
    /\ UNCHANGED <<platform, modelDownloaded>>

DownloadSettles(c) ==
    /\ calls[c].st = "pending" /\ calls[c].op = "downloadModel"
    /\ \E out \in NativeDownloadOutcomes(platform, modelDownloaded) :
          /\ Settle(c, out)
          /\ modelDownloaded' = (modelDownloaded \/ (out.kind = "ok" /\ out.flag))
    /\ UNCHANGED platform

\* The slot a handler of the demo screen takes for its call: the lowest free
\* one (which slot holds a promise has no counterpart in the program).
FreeSlot(c) == calls[c].st = "free" /\ \A d \in CallIds : calls[d].st = "free" => c <= d

\* The caller drops a settled promise.
Discard(c) ==
    /\ calls[c].st = "done"
    /\ calls' = [calls EXCEPT ![c] = FreeCall]

\* ---------------------------------------------------------------- demo screen
\* modelStatus is a string or null; a string is kept as its segments so that
\* a template literal keeps the interpolated message apart from its prefix.
NullStatus == <<>>

InitFacade ==
    /\ platform \in {"ios", "android"}
    /\ modelDownloaded = FALSE
    /\ calls = [c \in CallIds |-> FreeCall]

\* const [...] = useState(...) in App
InitApp ==
    /\ text = SAMPLE_TEXT
    /\ selectedTypes = Range(ALL_TYPES)
    /\ results = <<>>
    /\ loading = FALSE
    /\ modelStatus = NullStatus
    /\ detectCalls = {}
    /\ downloadCalls = {}

Init == InitFacade /\ InitApp

CallDetect ==
    \E c \in CallIds, t \in Texts, o \in OptionValues :
        Detect(c, t, o) /\ UNCHANGED <<platform, modelDownloaded>> /\ UNCHANGED appVars
CallDownloadModel ==
    \E c \in CallIds :
        DownloadModel(c) /\ UNCHANGED <<platform, modelDownloaded>> /\ UNCHANGED appVars
NativeDetectDone == \E c \in CallIds : DetectSettles(c) /\ UNCHANGED appVars
NativeDownloadDone == \E c \in CallIds : DownloadSettles(c) /\ UNCHANGED appVars
DropResult ==
    \E c \in CallIds :
        Discard(c) /\ UNCHANGED <<platform, modelDownloaded>> /\ UNCHANGED appVars

Next ==
    \/ CallDetect
    \/ CallDownloadModel
    \/ NativeDetectDone
    \/ NativeDownloadDone
    \/ DropResult

Spec == Init /\ [][Next]_vars

\* The selected chips are a JS Set.  No operation reads its iteration order
\* except Array.from, whose result is compared and used as a set downstream;
\* selectedTypes is therefore kept as a set and listed in ALL_TYPES order.
RECURSIVE ListFrom(_, _)
ListFrom(i, set) ==
    IF i > Len(ALL_TYPES) THEN <<>>
    ELSE IF ALL_TYPES[i] \in set THEN <<ALL_TYPES[i]>> \o ListFrom(i + 1, set)
         ELSE ListFrom(i + 1, set)
ArrayFrom(set) == ListFrom(1, set)

\* const toggleType = (type) => setSelectedTypes(prev => ...)
ToggleType(type) ==
    /\ selectedTypes' = IF type \in selectedTypes
                        THEN selectedTypes \ {type}
                        ELSE selectedTypes \cup {type}
    /\ UNCHANGED <<text, results, loading, modelStatus, detectCalls, downloadCalls>>
    /\ UNCHANGED facadeVars

\* <TextInput onChangeText={setText} />
SetText(t) ==
    /\ text' = t
    /\ UNCHANGED <<selectedTypes, results, loading, modelStatus, detectCalls, downloadCalls>>
    /\ UNCHANGED facadeVars

\* <Pressable onPress={handleDetect} disabled={loading}>
DetectButtonEnabled == ~loading

\* types.length < ALL_TYPES.length ? { types } : undefined
OptionsForNonEmpty(types) ==
    IF Len(types) > 0 THEN WithTypes(types) ELSE Omitted
OptionsFor(types) ==
    IF Len(types) < Len(ALL_TYPES) THEN WithTypes(types) ELSE Omitted

\* handleDetect up to its await: the early return on blank text, or
\* setLoading(true) and the call of detect.
HandleDetect ==
    /\ DetectButtonEnabled
    /\ IF Trim(text) = <<>>
       THEN UNCHANGED vars
       ELSE /\ loading' = TRUE
            /\ \E c \in CallIds :
                  /\ FreeSlot(c)
                  /\ Detect(c, text, OptionsFor(ArrayFrom(selectedTypes)))
                  /\ detectCalls' = detectCalls \cup {c}
            /\ UNCHANGED <<text, selectedTypes, results, modelStatus, downloadCalls>>
            /\ UNCHANGED <<platform, modelDownloaded>>

\* The state handleDetect writes after its await: try, catch and finally.
DetectContinuationNoFinally(p) ==
    [results |-> IF p.fulfilled THEN p.value ELSE <<>>,
     modelStatus |-> IF p.fulfilled THEN modelStatus
                     ELSE <<"Detection error: ", p.reason>>,
     loading |-> IF p.fulfilled THEN FALSE ELSE loading]
DetectContinuation(p) ==
    [results |-> IF p.fulfilled THEN p.value ELSE <<>>,
     modelStatus |-> IF p.fulfilled THEN modelStatus
                     ELSE <<"Detection error: ", p.reason>>,
     loading |-> FALSE]

\* handleDetect from the settling of detect's promise to its end.
HandleDetectResume(c) ==
    /\ c \in detectCalls
    /\ calls[c].st = "pending" /\ calls[c].op = "detect"
    /\ \E out \in NativeDetectOutcomes(calls[c].ntext, calls[c].ntypes) :
          LET after == DetectContinuation(Adopt(calls[c], out))
          IN  /\ results' = after.results
              /\ modelStatus' = after.modelStatus
              /\ loading' = after.loading
    /\ calls' = [calls EXCEPT ![c] = FreeCall]
    /\ detectCalls' = detectCalls \ {c}
    /\ UNCHANGED <<text, selectedTypes, downloadCalls, platform, modelDownloaded>>

\* handleDownloadModel up to its await; the button is rendered on Android only.
HandleDownloadModel ==
    /\ platform = "android"
    /\ modelStatus' = <<"Downloading">>
    /\ \E c \in CallIds :
          /\ FreeSlot(c)
          /\ DownloadModel(c)
          /\ downloadCalls' = downloadCalls \cup {c}
    /\ UNCHANGED <<text, selectedTypes, results, loading, detectCalls>>
    /\ UNCHANGED <<platform, modelDownloaded>>

\* handleDownloadModel from the settling of downloadModel's promise to its end.
HandleDownloadResume(c) ==
    /\ c \in downloadCalls
    /\ calls[c].st = "pending" /\ calls[c].op = "downloadModel"
    /\ \E out \in NativeDownloadOutcomes(platform, modelDownloaded) :
          LET p == Adopt(calls[c], out)
          IN  /\ modelStatus' = IF p.fulfilled
                                THEN (IF p.flag THEN <<"Model ready">>
                                      ELSE <<"No download needed">>)
                                ELSE <<"Error: ", p.reason>>
              /\ modelDownloaded' = (modelDownloaded \/ (out.kind = "ok" /\ out.flag))
    /\ calls' = [calls EXCEPT ![c] = FreeCall]
    /\ downloadCalls' = downloadCalls \ {c}
    /\ UNCHANGED <<text, selectedTypes, results, loading, detectCalls, platform>>

PressChip == \E type \in Range(ALL_TYPES) : ToggleType(type)
EditText == \E t \in AppTexts : SetText(t)
PressDetect == HandleDetect
DetectReturns == \E c \in CallIds : HandleDetectResume(c)
PressDownload == HandleDownloadModel
DownloadReturns == \E c \in CallIds : HandleDownloadResume(c)

NextApp ==
    \/ PressChip
    \/ EditText
    \/ PressDetect
    \/ DetectReturns
    \/ PressDownload
    \/ DownloadReturns

SpecApp == Init /\ [][NextApp]_vars
\* ---------------------------------------------------------------- properties
DetectCalls == {c \in CallIds : calls[c].st # "free" /\ calls[c].op = "detect"}
DoneDetectCalls == {c \in DetectCalls : calls[c].st = "done"}
DownloadModelCalls == {c \in CallIds : calls[c].st # "free" /\ calls[c].op = "downloadModel"}

\* What the caller of call c holds once its promise has settled.
CallerOutcome(c) ==
    [fulfilled |-> calls[c].fulfilled, rejected |-> calls[c].rejected,
     value |-> calls[c].value, reason |-> calls[c].reason]

\* C1: detect(T) with options omitted and detect(T, {types: all five}) reach
\* the native detector with the same text and the same filter (the five types),
\* each through one native invocation, and whenever the native detector gives
\* both the same outcome the two callers hold the same outcome; two successful
\* calls always hold the same list.
C1_OmittedIsAllFive ==
    \A c1, c2 \in DetectCalls :
        (/\ calls[c1].text = calls[c2].text
         /\ calls[c1].options = Omitted
         /\ calls[c2].options = WithTypes(ALL_TYPES))
        => /\ calls[c1].ntext = calls[c2].ntext
           /\ calls[c1].ntypes = calls[c2].ntypes
           /\ calls[c1].ntypes = ALL_TYPES
           /\ calls[c1].ncalls = calls[c2].ncalls
           /\ (c1 \in DoneDetectCalls /\ c2 \in DoneDetectCalls)
              => /\ calls[c1].nout = calls[c2].nout
                    => CallerOutcome(c1) = CallerOutcome(c2)
                 /\ (calls[c1].fulfilled /\ calls[c2].fulfilled)
                    => calls[c1].value = calls[c2].value

C1_Witness ==
    \E c1, c2 \in DoneDetectCalls :
        /\ calls[c1].text = SAMPLE_TEXT /\ calls[c2].text = SAMPLE_TEXT
        /\ calls[c1].options = Omitted
        /\ calls[c2].options = WithTypes(ALL_TYPES)
        /\ calls[c1].fulfilled /\ calls[c2].fulfilled
        /\ Len(calls[c1].value) = 2

\* C2: detect(T, {types: []}) hands the native detector the empty filter, not
\* the five-type default, and its promise is fulfilled with the empty list.
C2_EmptyTypesGiveNothing ==
    \A c \in DetectCalls :
        calls[c].options = WithTypes(<<>>)
        => /\ calls[c].ntypes = <<>>
           /\ calls[c].st = "done"
              => /\ calls[c].fulfilled /\ ~calls[c].rejected
                 /\ calls[c].value = <<>>

C2_Witness ==
    \E c \in DoneDetectCalls :
        /\ calls[c].options = WithTypes(<<>>)
        /\ calls[c].text = SAMPLE_TEXT
        /\ calls[c].fulfilled

\* C3 as stated: on the platform with no model requirement (iOS),
\* downloadModel() answers false without any call into the native layer and
\* never fails.
C3_NoNativeContact ==
    platform = "ios"
    => \A c \in DownloadModelCalls :
          /\ calls[c].ncalls = 0
          /\ calls[c].st = "done"
             => calls[c].fulfilled /\ ~calls[c].rejected /\ calls[c].flag = FALSE

\* C3 as amended: on iOS, downloadModel() forwards one call to the native
\* module and is fulfilled with the false that call answers; it never fails.
C3_FalseThroughNative ==
    platform = "ios"
    => \A c \in DownloadModelCalls :
          /\ calls[c].ncalls = 1
          /\ calls[c].st = "done"
             => /\ calls[c].fulfilled /\ ~calls[c].rejected
                /\ calls[c].flag = FALSE
                /\ calls[c].nout = FulfilledFlag(FALSE)

C3_Witness ==
    /\ platform = "ios"
    /\ \E c \in DownloadModelCalls : calls[c].st = "done" /\ calls[c].fulfilled

\* C4: a detect call whose native promise is rejected is rejected with the
\* same message after exactly one native invocation and holds no list; every
\* settled detect call is either fulfilled or rejected, never both.
C4_ErrorPropagates ==
    \A c \in DoneDetectCalls :
        /\ calls[c].fulfilled # calls[c].rejected
        /\ calls[c].ncalls = 1
        /\ calls[c].nout.kind = "error"
           => /\ calls[c].rejected /\ ~calls[c].fulfilled
              /\ calls[c].reason = calls[c].nout.msg
              /\ calls[c].value = <<>>
        /\ calls[c].fulfilled => calls[c].nout.kind = "ok" /\ calls[c].reason = ""

C4_Witness ==
    \E c \in DoneDetectCalls :
        /\ calls[c].nout = Rejected("E_UNAVAILABLE")
        /\ calls[c].rejected
        /\ calls[c].reason = "E_UNAVAILABLE"

\* C5: every entity E a detect call on text T is fulfilled with satisfies
\* 0 <= E.start <= E.end <= length(T) and T[E.start:E.end] = E.text, on both
\* platforms.
C5_OffsetsLocateText ==
    \A c \in DoneDetectCalls :
        calls[c].fulfilled
        => \A i \in DOMAIN calls[c].value :
              LET E == calls[c].value[i]
              IN  /\ 0 <= E.start /\ E.start <= E.end /\ E.end <= Len(calls[c].text)
                  /\ SubSeq(calls[c].text, E.start + 1, E.end) = E.text

C5_Witness ==
    \E c \in DoneDetectCalls :
        /\ platform = "android"
        /\ calls[c].text = <<" ", "p">>
        /\ calls[c].fulfilled
        /\ Len(calls[c].value) = 1
        /\ calls[c].value[1].start = 1

\* C6: whatever the interleaving of starts and completions, every settled
\* detect call holds an outcome the native detector produces for that call's
\* own text and filter, and it is the outcome of its own native promise.
C6_NoInterference ==
    \A c \in DoneDetectCalls :
        /\ calls[c].nout \in NativeDetectOutcomes(calls[c].text, ResolveTypes(calls[c].options))
        /\ calls[c].fulfilled
           => calls[c].value = NativeDetect(calls[c].text, ResolveTypes(calls[c].options))
        /\ calls[c].rejected => calls[c].reason = calls[c].nout.msg

C6_Witness ==
    \E c1, c2 \in DoneDetectCalls :
        /\ c1 # c2
        /\ calls[c1].text # calls[c2].text
        /\ calls[c1].fulfilled /\ calls[c2].rejected
        /\ calls[c1].value # <<>>

\* C7: the native detector receives the caller's text as given, and a
\* fulfilled detect call holds exactly the sequence the native promise was
\* fulfilled with.
C7_PassThrough ==
    \A c \in DetectCalls :
        /\ calls[c].ntext = calls[c].text
        /\ (calls[c].st = "done" /\ calls[c].nout.kind = "ok")
           => calls[c].fulfilled /\ calls[c].value = calls[c].nout.list

C7_Witness ==
    \E c \in DoneDetectCalls :
        /\ calls[c].text = SAMPLE_TEXT
        /\ calls[c].fulfilled
        /\ Len(calls[c].value) = 2
        /\ calls[c].value[1].start < calls[c].value[2].start

\* C8: a detect call on the empty text is fulfilled with the empty list and is
\* never rejected, whatever its options.
C8_EmptyText ==
    \A c \in DoneDetectCalls :
        calls[c].text = <<>>
        => calls[c].fulfilled /\ ~calls[c].rejected /\ calls[c].value = <<>>

C8_Witness ==
    \E c1, c2 \in DoneDetectCalls :
        /\ calls[c1].text = <<>> /\ calls[c2].text = <<>>
        /\ calls[c1].options = Omitted
        /\ calls[c2].options = WithTypes(<<"link", "phoneNumber">>)
        /\ calls[c1].fulfilled /\ calls[c2].fulfilled

\* C9: loading is true exactly while a handleDetect run awaits detect, and at
\* most one does; a run starts only with loading false and non-blank text and
\* sets loading; the step that settles it resets loading, and sets results to
\* the returned list, or to empty with modelStatus carrying the error message.
C9_Step ==
    /\ loading <=> detectCalls # {}
    /\ loading' <=> detectCalls' # {}
    /\ Cardinality(detectCalls') <= 1
    /\ \A c \in detectCalls' \ detectCalls :
          /\ ~loading /\ loading'
          /\ Trim(text) # <<>>
          /\ calls'[c].st = "pending" /\ calls'[c].text = text
    /\ \A c \in detectCalls \ detectCalls' :
          /\ loading /\ ~loading'
          /\ \E out \in NativeDetectOutcomes(calls[c].text, ResolveTypes(calls[c].options)) :
                \/ /\ out.kind = "ok"
                   /\ results' = out.list
                   /\ modelStatus' = modelStatus
                \/ /\ out.kind = "error"
                   /\ results' = <<>>
                   /\ modelStatus' = <<"Detection error: ", out.msg>>

C9_LoadingFollowsDetect == [][C9_Step]_vars

\* C9, liveness reading: under weak fairness of the settling of detect (a
\* dispatched native call runs to completion or failure), loading never stays
\* true forever.
FairSpecApp == SpecApp /\ WF_vars(DetectReturns)
C9_EventuallyIdle == loading ~> ~loading

C9_Witness ==
    /\ ~loading
    /\ detectCalls = {}
    /\ results = <<>>
    /\ modelStatus = <<"Detection error: ", "E_DETECT">>

\* C10: selectedTypes stays within the five types, and the filter a
\* handleDetect run hands the native detector is, as a set, the selection at
\* that moment: the full selection goes as omitted options, any smaller one,
\* the empty one included, as explicit types.
C10_Step ==
    /\ selectedTypes \subseteq Range(ALL_TYPES)
    /\ selectedTypes' \subseteq Range(ALL_TYPES)
    /\ \A c \in detectCalls' \ detectCalls :
          /\ Range(calls'[c].ntypes) = selectedTypes
          /\ selectedTypes = Range(ALL_TYPES) => calls'[c].options = Omitted
          /\ selectedTypes # Range(ALL_TYPES)
             => /\ calls'[c].options.present /\ calls'[c].options.hasTypes
                /\ Range(calls'[c].options.types) = selectedTypes
                /\ calls'[c].ntypes = calls'[c].options.types

C10_FilterIsSelection == [][C10_Step]_vars

C10_Witness ==
    \E c \in detectCalls :
        /\ calls[c].st = "pending"
        /\ calls[c].options = WithTypes(<<>>)
        /\ calls[c].ntypes = <<>>
        /\ selectedTypes = {}
====
